---- MODULE Spec2Model ----
(***************************************************************************)
(* State-machine model of the ecommerce-store backend:                     *)
(*   - products/models.py : ProductImage.save and its unique_together      *)
(*   - accounts/views.py  : registration, login, logout, change_password,  *)
(*                          deactivate/activate/destroy and their          *)
(*                          permission dispatch                            *)
(* The storage layer is autocommit (settings.py sets no ATOMIC_REQUESTS),  *)
(* so every SQL statement of a handler is its own atomic step.             *)
(***************************************************************************)
EXTENDS Integers, FiniteSets, Sequences, TLC

(***************************************************************************)
(* Bounds                                                                  *)
(***************************************************************************)
MaxProducts == 2
MaxImages == 4
MaxRaceProducts == 1
MaxPw == 2
MaxKeys == 3
MaxProfiles == 2

Products == 1..MaxProducts
RaceProducts == 1..MaxRaceProducts
ImageIds == 1..MaxImages
Requests == {1, 2}
Names == {"admin", "alice"}
Passwords == 0..MaxPw
Keys == 1..MaxKeys
ProfileIds == 1..MaxProfiles
Data == {0, 1}

VARIABLES
    images,     \* ProductImage table: pk -> row; product = 0 is "no such row"
    imgLast,    \* outcome of the last sequential ProductImage.save
    pc,         \* per concurrent request: position inside ProductImage.save
    req,        \* per concurrent request: the instance being saved, and whether
                \* its UPDATE statement changed a row
    conc,       \* the two requests in flight overlapped in time
    users,      \* User table: username -> row
    tokens,     \* authtoken Token table: set of rows (key, user)
    nextKey,    \* number of token keys generated so far, plus one
    issued,     \* per principal: the key last returned to it and not logged out
    last,       \* the last account request's response
    lpc,        \* per concurrent login: position inside get_or_create
    lreq,       \* per concurrent login: the principal, the key it returned
    details,    \* User table: username -> the fields UserSerializer writes
    profiles,   \* UserProfile table: pk -> row; user = "" is "no such row"
    seen,       \* the records in the body of the last read or list response
    brands,     \* Brand table: pk -> row
    categories, \* Category table: pk -> row
    products,   \* Product table: pk -> row
    catLast,    \* outcome of the last catalog save or delete
    item,       \* a Product instance whose properties are read
    props       \* the property values read from it

imgVars == <<images, imgLast, pc, req, conc>>
accVars == <<users, tokens, nextKey, issued, last>>
loginVars == <<lpc, lreq>>
profVars == <<details, profiles, seen>>
catVars == <<brands, categories, products, catLast>>
priceVars == <<item, props>>
vars == <<images, imgLast, pc, req, conc, users, tokens, nextKey, issued, last,
          lpc, lreq, details, profiles, seen, brands, categories, products,
          catLast, item, props>>

(***************************************************************************)
(* ProductImage rows                                                       *)
(***************************************************************************)
NoRow == [product |-> 0, is_primary |-> FALSE]

Row(p, prim) == [product |-> p, is_primary |-> prim]

Stored(imgs) == {i \in ImageIds : imgs[i].product # 0}

ImagesOf(imgs, p) == {i \in ImageIds : imgs[i].product = p}

PrimariesOf(imgs, p) == {i \in ImageIds : imgs[i].product = p /\ imgs[i].is_primary}

\* Meta.unique_together = ('product', 'is_primary') with the constraint left out
UniqueTogetherDropped(imgs) == TRUE

\* Meta.unique_together = ('product', 'is_primary'): no two rows agree on both
UniqueTogether(imgs) ==
    \A i, j \in Stored(imgs) :
        (i # j /\ imgs[i].product = imgs[j].product)
            => imgs[i].is_primary # imgs[j].is_primary

\* an update(is_primary=False) that is not filtered by product
DemoteOthers_all_products(imgs, p) ==
    [i \in ImageIds |->
        IF imgs[i].product # 0 /\ imgs[i].is_primary
        THEN Row(imgs[i].product, FALSE)
        ELSE imgs[i]]

\* filter(product=self.product, is_primary=True).update(is_primary=False)
DemoteOthers(imgs, p) ==
    [i \in ImageIds |->
        IF imgs[i].product = p /\ imgs[i].is_primary
        THEN Row(p, FALSE)
        ELSE imgs[i]]

\* the pk an INSERT assigns: the next unused id
NewId(imgs) == CHOOSE i \in ImageIds \ Stored(imgs) :
                   \A j \in ImageIds \ Stored(imgs) : i <= j

\* super().save(): UPDATE the row of an instance that has a pk, INSERT otherwise
WriteRow(imgs, i, p, prim) ==
    [imgs EXCEPT ![IF i = 0 THEN NewId(imgs) ELSE i] = Row(p, prim)]

(***************************************************************************)
(* ProductImage.save as one sequential call                                *)
(***************************************************************************)
ImgOutcome(st, i, p, prim) ==
    [status |-> st, img |-> i, product |-> p, is_primary |-> prim]

ProductImage_save(i, p, prim) ==
    /\ i = 0 => Cardinality(Stored(images)) < MaxImages
    /\ LET demoted == IF prim THEN DemoteOthers(images, p) ELSE images
           pk == IF i = 0 THEN NewId(images) ELSE i
       IN IF ~UniqueTogether(demoted)
          THEN \* the UPDATE statement raises IntegrityError, nothing is written
               /\ images' = images
               /\ imgLast' = ImgOutcome("IntegrityError", i, p, prim)
          ELSE IF ~UniqueTogether(WriteRow(demoted, i, p, prim))
          THEN \* the row write raises IntegrityError, the demotion is committed
               /\ images' = demoted
               /\ imgLast' = ImgOutcome("IntegrityError", i, p, prim)
          ELSE /\ images' = WriteRow(demoted, i, p, prim)
               /\ imgLast' = ImgOutcome("ok", pk, p, prim)
    /\ UNCHANGED <<pc, req, conc>>
    /\ UNCHANGED <<accVars, loginVars, profVars, catVars, priceVars>>

SaveImage ==
    \E i \in {0} \cup Stored(images), p \in {q \in Products : products[q].exists},
       prim \in BOOLEAN :
        ProductImage_save(i, p, prim)

(***************************************************************************)
(* ProductImage.save run by two concurrent requests, statement by statement*)
(***************************************************************************)
InFlight(r) == pc[r] \in {"demote", "write"}

Finished(r) == pc[r] \in {"done", "failed"}

PendingInserts == {r \in Requests : InFlight(r) /\ req[r].img = 0}

\* line 185: if self.is_primary
StartSave(r, i, p, prim) ==
    /\ ~InFlight(r)
    /\ i = 0 => Cardinality(Stored(images)) + Cardinality(PendingInserts) < MaxImages
    /\ req' = [req EXCEPT ![r] = [img |-> i, product |-> p, is_primary |-> prim,
                                  demoted |-> FALSE]]
    /\ pc' = [pc EXCEPT ![r] = IF prim THEN "demote" ELSE "write"]
    /\ conc' = \E o \in Requests \ {r} : InFlight(o)
    /\ UNCHANGED <<images, imgLast>>
    /\ UNCHANGED <<accVars, loginVars, profVars, catVars, priceVars>>

\* line 186: the UPDATE statement
DemoteStep(r) ==
    /\ pc[r] = "demote"
    /\ LET demoted == DemoteOthers(images, req[r].product)
       IN IF UniqueTogether(demoted)
          THEN /\ images' = demoted
               /\ pc' = [pc EXCEPT ![r] = "write"]
               /\ req' = [req EXCEPT ![r].demoted = (demoted # images)]
          ELSE /\ images' = images
               /\ pc' = [pc EXCEPT ![r] = "failed"]
               /\ req' = req
    /\ UNCHANGED <<imgLast, conc>>
    /\ UNCHANGED <<accVars, loginVars, profVars, catVars, priceVars>>

\* line 187: super().save()
WriteStep(r) ==
    /\ pc[r] = "write"
    /\ LET written == WriteRow(images, req[r].img, req[r].product, req[r].is_primary)
       IN IF UniqueTogether(written)
          THEN images' = written /\ pc' = [pc EXCEPT ![r] = "done"]
          ELSE images' = images /\ pc' = [pc EXCEPT ![r] = "failed"]
    /\ UNCHANGED <<imgLast, req, conc>>
    /\ UNCHANGED <<accVars, loginVars, profVars, catVars, priceVars>>

Start ==
    \E r \in Requests, i \in {0} \cup Stored(images), p \in RaceProducts,
       prim \in BOOLEAN :
        StartSave(r, i, p, prim)

Demote == \E r \in Requests : DemoteStep(r)

Write == \E r \in Requests : WriteStep(r)

(***************************************************************************)
(* Catalog: Brand, Category and Product rows, slugs, deletes               *)
(***************************************************************************)
\* a name or a slug is a sequence of characters; "e_acute" stands for the
\* one character U+00E9
Titles ==
    { <<"S", "h">>,
      <<"s", "h">>,
      <<" ", "S", "!", " ", "-", "e_acute", "_">> }

\* the names the rows created by slot number carry
ProductTitle(p) == [k \in 1..p |-> "s"]

CategoryTitle(i) == [k \in 1..i |-> "h"]

BrandTitle(i) == [k \in 1..i |-> "e_acute"]

\* unicodedata.normalize('NFKD', value).encode('ascii', 'ignore'): an
\* accented letter loses its accent
ToAscii(c) == IF c = "e_acute" THEN "e" ELSE c

\* str.lower()
Lower(c) == IF c = "S" THEN "s" ELSE IF c = "H" THEN "h" ELSE c

\* the characters the pattern [\w\s-] matches
WordChars == {"s", "h", "e", "S", "H", "_"}

Separators == {" ", "-"}

\* re.sub(r'[^\w\s-]', '', value.lower())
KeepSlugChars(v) == SelectSeq(v, LAMBDA c : c \in WordChars \cup Separators)

RECURSIVE DropSeparators(_)
DropSeparators(v) ==
    IF v # <<>> /\ Head(v) \in Separators THEN DropSeparators(Tail(v)) ELSE v

\* re.sub(r'[-\s]+', '-', value)
RECURSIVE Collapse(_)
Collapse(v) ==
    IF v = <<>> THEN <<>>
    ELSE IF Head(v) \in Separators
    THEN <<"-">> \o Collapse(DropSeparators(Tail(v)))
    ELSE <<Head(v)>> \o Collapse(Tail(v))

RECURSIVE LStrip(_)
LStrip(v) == IF v # <<>> /\ Head(v) \in {"-", "_"} THEN LStrip(Tail(v)) ELSE v

RECURSIVE RStrip(_)
RStrip(v) ==
    IF v # <<>> /\ v[Len(v)] \in {"-", "_"}
    THEN RStrip(SubSeq(v, 1, Len(v) - 1))
    ELSE v

\* a slugify that leaves the name as it is
slugify_identity(value) == value

\* django.utils.text.slugify
slugify(value) ==
    LET ascii == [k \in 1..Len(value) |-> ToAscii(value[k])]
        lower == [k \in 1..Len(ascii) |-> Lower(ascii[k])]
    IN RStrip(LStrip(Collapse(KeepSlugChars(lower))))

MaxBrands == 2
MaxCategories == 3
MaxCatalogProducts == 1

BrandIds == 1..MaxBrands
CategoryIds == 1..MaxCategories
CatalogProducts == 1..MaxCatalogProducts

NoBrand == [exists |-> FALSE, name |-> <<>>, slug |-> <<>>]

NoCategory == [exists |-> FALSE, name |-> <<>>, slug |-> <<>>, parent |-> 0]

NoProduct == [exists |-> FALSE, name |-> <<>>, slug |-> <<>>, category |-> 0, brand |-> 0]

\* the pks of the rows a table holds
StoredRows(rows) == {i \in DOMAIN rows : rows[i].exists}

\* the pk an INSERT assigns: the next unused id
NewRowId(rows) == CHOOSE i \in DOMAIN rows \ StoredRows(rows) :
                      \A j \in DOMAIN rows \ StoredRows(rows) : i <= j

\* name = CharField(unique=True) of Brand and Category
NameUnique(rows) ==
    \A i, j \in StoredRows(rows) : i # j => rows[i].name # rows[j].name

\* slug = SlugField(unique=True) with the constraint left out
SlugNotUnique(rows) == TRUE

\* slug = SlugField(unique=True)
SlugUnique(rows) ==
    \A i, j \in StoredRows(rows) : i # j => rows[i].slug # rows[j].slug

\* the outcome of a save or a delete; delete() returns the number of rows deleted
CatOutcome(op, st, n) == [op |-> op, status |-> st, deleted |-> n]

\* a derivation that follows the name on every save
DeriveSlug_always(name, slug) == slugify(name)

\* lines 26-27, 57-58, 138-139: if not self.slug: self.slug = slugify(self.name)
DeriveSlug(name, slug) == IF slug = <<>> THEN slugify(name) ELSE slug

\* Brand.save
Brand_save(i, name, slug) ==
    LET row == [exists |-> TRUE, name |-> name, slug |-> DeriveSlug(name, slug)]
        written == [brands EXCEPT ![IF i = 0 THEN NewRowId(brands) ELSE i] = row]
    IN /\ i = 0 => StoredRows(brands) # BrandIds
       /\ IF NameUnique(written) /\ SlugUnique(written)
          THEN /\ brands' = written
               /\ catLast' = CatOutcome("Brand.save", "ok", 0)
          ELSE /\ brands' = brands
               /\ catLast' = CatOutcome("Brand.save", "IntegrityError", 0)
       /\ UNCHANGED <<categories, products>>
       /\ UNCHANGED <<imgVars, accVars, loginVars, profVars, priceVars>>

\* Category.save
Category_save(i, name, slug, parent) ==
    LET row == [exists |-> TRUE, name |-> name, slug |-> DeriveSlug(name, slug),
                parent |-> parent]
        written == [categories EXCEPT ![IF i = 0 THEN NewRowId(categories) ELSE i] = row]
    IN /\ i = 0 => StoredRows(categories) # CategoryIds
       /\ IF NameUnique(written) /\ SlugUnique(written)
          THEN /\ categories' = written
               /\ catLast' = CatOutcome("Category.save", "ok", 0)
          ELSE /\ categories' = categories
               /\ catLast' = CatOutcome("Category.save", "IntegrityError", 0)
       /\ UNCHANGED <<brands, products>>
       /\ UNCHANGED <<imgVars, accVars, loginVars, profVars, priceVars>>

\* Product.save
Product_save(i, name, slug, category, brand) ==
    LET row == [exists |-> TRUE, name |-> name, slug |-> DeriveSlug(name, slug),
                category |-> category, brand |-> brand]
        written == [products EXCEPT ![IF i = 0 THEN NewRowId(products) ELSE i] = row]
    IN /\ i = 0 => StoredRows(products) # Products
       /\ IF SlugUnique(written)
          THEN /\ products' = written
               /\ catLast' = CatOutcome("Product.save", "ok", 0)
          ELSE /\ products' = products
               /\ catLast' = CatOutcome("Product.save", "IntegrityError", 0)
       /\ UNCHANGED <<brands, categories>>
       /\ UNCHANGED <<imgVars, accVars, loginVars, profVars, priceVars>>

\* the categories whose parent is in S
Children(cats, S) == {i \in StoredRows(cats) : cats[i].parent \in S}

\* a collector that stops at the direct children
RECURSIVE CollectChildrenOnly(_, _)
CollectChildrenOnly(cats, S) == S \cup Children(cats, S)

\* on_delete=CASCADE on Category.parent: the deletion collector follows the
\* children relation until nothing new is found
RECURSIVE Collect(_, _)
Collect(cats, S) ==
    LET T == S \cup Children(cats, S)
    IN IF T = S THEN S ELSE Collect(cats, T)

\* Category.delete: the collected categories go; on_delete=SET_NULL clears
\* Product.category of the products that referenced one of them
Category_delete(i) ==
    LET gone == Collect(categories, {i})
    IN /\ categories[i].exists
       /\ categories' = [j \in CategoryIds |->
                            IF j \in gone THEN NoCategory ELSE categories[j]]
       /\ products' = [p \in Products |->
                          IF products[p].exists /\ products[p].category \in gone
                          THEN [products[p] EXCEPT !.category = 0]
                          ELSE products[p]]
       /\ catLast' = CatOutcome("Category.delete", "ok", Cardinality(gone))
       /\ UNCHANGED brands
       /\ UNCHANGED <<imgVars, accVars, loginVars, profVars, priceVars>>

\* Brand.delete: on_delete=SET_NULL clears Product.brand
Brand_delete(b) ==
    /\ brands[b].exists
    /\ brands' = [brands EXCEPT ![b] = NoBrand]
    /\ products' = [p \in Products |->
                       IF products[p].exists /\ products[p].brand = b
                       THEN [products[p] EXCEPT !.brand = 0]
                       ELSE products[p]]
    /\ catLast' = CatOutcome("Brand.delete", "ok", 1)
    /\ UNCHANGED categories
    /\ UNCHANGED <<imgVars, accVars, loginVars, profVars, priceVars>>

\* Product.delete: on_delete=CASCADE on ProductImage.product deletes its images
Product_delete(p) ==
    /\ products[p].exists
    /\ products' = [products EXCEPT ![p] = NoProduct]
    /\ images' = [i \in ImageIds |-> IF images[i].product = p THEN NoRow ELSE images[i]]
    /\ catLast' = CatOutcome("Product.delete", "ok", 1 + Cardinality(ImagesOf(images, p)))
    /\ UNCHANGED <<brands, categories>>
    /\ UNCHANGED <<imgLast, pc, req, conc>>
    /\ UNCHANGED <<accVars, loginVars, profVars, priceVars>>

\* the slugs a caller supplies: none, or one of its own choosing
SuppliedSlugs == {<<>>, <<"s", "h">>}

\* saves that choose the name and the slug
SaveBrand ==
    \E i \in {0} \cup StoredRows(brands), n \in Titles, s \in SuppliedSlugs :
        Brand_save(i, n, s)

SaveCategory ==
    \E i \in {0} \cup StoredRows(categories), n \in Titles, s \in SuppliedSlugs :
        Category_save(i, n, s, IF i = 0 THEN 0 ELSE categories[i].parent)

SaveProduct ==
    \E i \in CatalogProducts, n \in Titles, s \in SuppliedSlugs \cup {<<"s", "s">>} :
        /\ products[i].exists
        /\ Product_save(i, n, s, products[i].category, products[i].brand)

\* a stored row is loaded, given another name and saved: the instance carries
\* the slug the row holds
RenameBrand ==
    \E i \in StoredRows(brands), n \in Titles :
        Brand_save(i, n, brands[i].slug)

RenameCategory ==
    \E i \in StoredRows(categories), n \in Titles :
        Category_save(i, n, categories[i].slug, categories[i].parent)

RenameProduct ==
    \E i \in CatalogProducts, n \in Titles :
        /\ products[i].exists
        /\ Product_save(i, n, products[i].slug, products[i].category, products[i].brand)

\* saves and deletes that build and change the structure
AddCategory ==
    \E par \in {0} \cup StoredRows(categories) :
        /\ StoredRows(categories) # CategoryIds
        /\ Category_save(0, CategoryTitle(NewRowId(categories)), <<>>, par)

MoveCategory ==
    \E i \in StoredRows(categories), par \in {0} \cup StoredRows(categories) :
        Category_save(i, categories[i].name, categories[i].slug, par)

DeleteCategory == \E i \in CategoryIds : Category_delete(i)

AddBrand ==
    /\ StoredRows(brands) # BrandIds
    /\ Brand_save(0, BrandTitle(NewRowId(brands)), <<>>)

DeleteBrand == \E b \in BrandIds : Brand_delete(b)

AddProduct ==
    /\ \E p \in CatalogProducts : ~products[p].exists
    /\ StoredRows(products) # Products
    /\ Product_save(0, ProductTitle(NewRowId(products)), <<>>, 0, 0)

LinkProduct ==
    \E p \in CatalogProducts, c \in {0} \cup StoredRows(categories),
       b \in {0} \cup StoredRows(brands) :
        /\ products[p].exists
        /\ Product_save(p, products[p].name, products[p].slug, c, b)

DeleteProduct == \E p \in CatalogProducts : Product_delete(p)

AddImage ==
    \E p \in CatalogProducts, prim \in BOOLEAN :
        /\ products[p].exists
        /\ ProductImage_save(0, p, prim)

(***************************************************************************)
(* Product properties                                                      *)
(***************************************************************************)
MaxPrice == 32
MaxStock == 2

\* amounts in hundredths (DecimalField(decimal_places=2))
Prices == 0..MaxPrice

\* discount_price is None (<<>>) or an amount (<<v>>)
DiscountPrices == {<<>>} \cup {<<v>> : v \in Prices}

Stocks == (0 - 1)..MaxStock

\* a rounding to the nearest that takes ties upwards
RoundHalfUp(n, d) == (2 * n + d) \div (2 * d)

\* round(x, 2) of a Decimal x = n / d: to the nearest, ties to even
RoundHalfEven(n, d) ==
    LET q == n \div d
        r == n % d
    IN IF 2 * r < d THEN q
       ELSE IF 2 * r > d THEN q + 1
       ELSE IF q % 2 = 0 THEN q ELSE q + 1

\* a has_discount that only asks whether discount_price is set
has_discount_if_set(it) ==
    it.discount_price # <<>>

\* Product.has_discount
has_discount(it) ==
    it.discount_price # <<>> /\ it.discount_price[1] < it.price

\* Product.discount_percentage, in hundredths of a percent; the quotient
\* (price - discount_price) / price * 100 is kept exact (the 28-digit Decimal
\* context is far finer than the two places it is rounded to)
discount_percentage(it) ==
    IF has_discount(it)
    THEN RoundHalfEven((it.price - it.discount_price[1]) * 10000, it.price)
    ELSE 0

\* line 151 divides by self.price: with a zero price inside the has_discount
\* branch the Decimal division raises (DivisionByZero) and no value is returned
discount_percentage_raises(it) == has_discount(it) /\ it.price = 0

\* Product.is_in_stock
is_in_stock(it) == it.stock > 0

\* the Product instances whose properties are read
Items == [price : Prices, discount_price : DiscountPrices, stock : Stocks]

NotRead == [read |-> FALSE, has_discount |-> FALSE, discount_percentage |-> 0,
            raised |-> FALSE, is_in_stock |-> FALSE]

\* the three properties read from the Product instance
ReadProperties ==
    /\ ~props.read
    /\ props' = [read |-> TRUE,
                 has_discount |-> has_discount(item),
                 discount_percentage |-> IF discount_percentage_raises(item)
                                         THEN 0
                                         ELSE discount_percentage(item),
                 raised |-> discount_percentage_raises(item),
                 is_in_stock |-> is_in_stock(item)]
    /\ UNCHANGED item
    /\ UNCHANGED <<imgVars, accVars, loginVars, profVars, catVars>>

(***************************************************************************)
(* Accounts: users, credentials, tokens                                    *)
(***************************************************************************)
NoUser == [exists |-> FALSE, password |-> 0, is_active |-> FALSE, is_staff |-> FALSE]

\* UserProfile rows: the owner and the fields UserProfileSerializer writes
NoProfile == [user |-> "", data |-> 0]

\* the credential hashing service: only the digest is stored
make_password(pw) == (pw * 7 + 3) % 31

check_password(pw, digest) == make_password(pw) = digest

\* AUTH_PASSWORD_VALIDATORS: password 0 stands for the rejected ones
Strong(pw) == pw # 0

Existing == {u \in Names : users[u].exists}

TokensOf(toks, u) == {t \in toks : t.user = u}

KeyOf(toks, u) == (CHOOSE t \in toks : t.user = u).key

\* what a request carries: nothing, an Authorization token, or a session
NoCred == [kind |-> "none", key |-> 0, user |-> "anon"]

Creds ==
    {NoCred}
        \cup {[kind |-> "token", key |-> k, user |-> "anon"] : k \in Keys}
        \cup {[kind |-> "session", key |-> 0, user |-> u] : u \in Names}

\* DEFAULT_AUTHENTICATION_CLASSES: TokenAuthentication, then
\* SessionAuthentication, against the tables us and toks; yields a username,
\* "anon", or "failed" (401)
AuthenticateIn(us, toks, c) ==
    IF c.kind = "token"
    THEN IF \E t \in toks : t.key = c.key /\ us[t.user].is_active
         THEN (CHOOSE t \in toks : t.key = c.key).user
         ELSE "failed"
    ELSE IF c.kind = "session" /\ us[c.user].exists /\ us[c.user].is_active
    THEN c.user
    ELSE "anon"

Authenticate(c) == AuthenticateIn(users, tokens, c)

IsAuthenticated(who) == who \in Names

IsAdminUser(who) == who \in Names /\ users[who].is_staff

\* a get_permissions that puts list under IsAuthenticated
get_permissions_list_open(action) ==
    IF action = "create" THEN "IsAdminUser"
    ELSE IF action = "destroy" THEN "IsAdminUser"
    ELSE "IsAuthenticated"

\* UserViewSet.get_permissions: the permission class chosen for an action
get_permissions(action) ==
    IF action \in {"create", "list"} THEN "IsAdminUser"
    ELSE IF action \in {"retrieve", "update", "partial_update"} THEN "IsAuthenticated"
    ELSE IF action = "destroy" THEN "IsAdminUser"
    ELSE "IsAuthenticated"

has_permission(action, who) ==
    IF get_permissions(action) = "IsAdminUser"
    THEN IsAdminUser(who)
    ELSE IsAuthenticated(who)

\* permission_denied: NotAuthenticated for an anonymous caller, else 403
DeniedStatus(who) == IF who \in Names THEN 403 ELSE 401

\* a get_queryset that returns every principal to every caller
get_queryset_unscoped(who) == Existing

\* UserViewSet.get_queryset
get_queryset(who) == IF users[who].is_staff THEN Existing ELSE {who}

\* the response: the principal it concerns, the status, the token key and
\* the error body
Response(op, u, st, key, detail) ==
    [op |-> op, user |-> u, status |-> st, key |-> key, detail |-> detail]

\* Token.user as a plain foreign key: any number of rows per user
TokenUserNotUnique(toks, u) == TRUE

\* Token.user is one-to-one: an INSERT for u is accepted only if u has no row
TokenUserUnique(toks, u) == TokensOf(toks, u) = {}

\* delete the row and create another one on every call
Token_recreate(toks, u, k) ==
    [tokens |-> (toks \ TokensOf(toks, u)) \cup {[key |-> k, user |-> u]},
     key |-> k, created |-> TRUE]

\* Token.objects.get_or_create(user=u) with fresh key k, run without
\* interference: the stored row if there is one, else a new row
Token_get_or_create(toks, u, k) ==
    IF TokensOf(toks, u) # {}
    THEN [tokens |-> toks, key |-> KeyOf(toks, u), created |-> FALSE]
    ELSE [tokens |-> toks \cup {[key |-> k, user |-> u]}, key |-> k, created |-> TRUE]

IssueToken(u, op, st) ==
    LET got == Token_get_or_create(tokens, u, nextKey)
    IN /\ got.created => nextKey <= MaxKeys
       /\ tokens' = got.tokens
       /\ nextKey' = IF got.created THEN nextKey + 1 ELSE nextKey
       /\ issued' = [issued EXCEPT ![u] = got.key]
       /\ last' = Response(op, u, st, got.key, "")

\* UserRegistrationSerializer.is_valid: unique username, strong password,
\* matching confirmation
RegistrationValid(name, pw, confirm) ==
    /\ ~users[name].exists
    /\ Strong(pw)
    /\ pw = confirm

\* UserRegistrationViewSet.create and register_view
Register(name, pw, confirm) ==
    /\ IF RegistrationValid(name, pw, confirm)
       THEN /\ users' = [users EXCEPT ![name] =
                           [exists |-> TRUE, password |-> make_password(pw),
                            is_active |-> TRUE, is_staff |-> FALSE]]
            /\ IssueToken(name, "register", 201)
       ELSE /\ last' = Response("register", name, 400, 0, "validation")
            /\ UNCHANGED <<users, tokens, nextKey, issued>>
    /\ UNCHANGED <<imgVars, loginVars, profVars, catVars, priceVars>>

\* UserLoginSerializer.is_valid: the identifier resolves to an active
\* principal whose stored hash matches the credential
LoginValid(name, pw) ==
    /\ users[name].exists
    /\ check_password(pw, users[name].password)
    /\ users[name].is_active

\* UserLoginSerializer.errors: one generic message whatever check failed
LoginErrors(name, pw) == "invalid_credentials"

\* a login that fetches the token before looking at is_valid()
LoginTokenFirst(name, pw) ==
    /\ IF users[name].exists /\ check_password(pw, users[name].password)
       THEN IssueToken(name, "login", IF LoginValid(name, pw) THEN 200 ELSE 401)
       ELSE /\ last' = Response("login", name, 401, 0, LoginErrors(name, pw))
            /\ UNCHANGED <<tokens, nextKey, issued>>
    /\ UNCHANGED users
    /\ UNCHANGED <<imgVars, loginVars, profVars, catVars, priceVars>>

\* UserLoginViewSet.create and login_view
Login(name, pw) ==
    /\ IF LoginValid(name, pw)
       THEN IssueToken(name, "login", 200)
       ELSE /\ last' = Response("login", name, 401, 0, LoginErrors(name, pw))
            /\ UNCHANGED <<tokens, nextKey, issued>>
    /\ UNCHANGED users
    /\ UNCHANGED <<imgVars, loginVars, profVars, catVars, priceVars>>

\* Token.objects.all().delete() in place of the caller's own token
DeleteEveryToken(op, who) ==
    IF who \in Names /\ TokensOf(tokens, who) # {}
    THEN /\ tokens' = {}
         /\ issued' = [u \in Names |-> 0]
         /\ last' = Response(op, who, 200, 0, "")
    ELSE /\ UNCHANGED <<tokens, issued>>
         /\ last' = Response(op, who, 400, 0, "logout_failed")

\* request.user.auth_token.delete() inside try/except
DeleteAuthToken(op, who) ==
    IF who \in Names /\ TokensOf(tokens, who) # {}
    THEN /\ tokens' = tokens \ TokensOf(tokens, who)
         /\ issued' = [issued EXCEPT ![who] = 0]
         /\ last' = Response(op, who, 200, 0, "")
    ELSE /\ UNCHANGED <<tokens, issued>>
         /\ last' = Response(op, who, 400, 0, "logout_failed")

\* UserViewSet.logout
UserViewSet_logout(c) ==
    LET who == Authenticate(c)
    IN /\ IF ~has_permission("logout", who)
          THEN /\ last' = Response("logout", who, DeniedStatus(who), 0, "denied")
               /\ UNCHANGED <<tokens, issued>>
          ELSE DeleteAuthToken("logout", who)
       /\ UNCHANGED <<users, nextKey>>
       /\ UNCHANGED <<imgVars, loginVars, profVars, catVars, priceVars>>

\* logout_view (AllowAny)
logout_view(c) ==
    LET who == Authenticate(c)
    IN /\ IF who = "failed"
          THEN /\ last' = Response("logout_view", who, 401, 0, "denied")
               /\ UNCHANGED <<tokens, issued>>
          ELSE DeleteAuthToken("logout_view", who)
       /\ UNCHANGED <<users, nextKey>>
       /\ UNCHANGED <<imgVars, loginVars, profVars, catVars, priceVars>>

\* ChangePasswordSerializer.is_valid: the new password passes the
\* registration strength validation
ChangePasswordValid(old, new) == Strong(new)

\* a change_password that answers 200 without storing the new credential
change_password_unsaved(c, old, new) ==
    LET who == Authenticate(c)
    IN /\ last' = IF ~has_permission("change_password", who)
                  THEN Response("change_password", who, DeniedStatus(who), 0, "denied")
                  ELSE IF ~ChangePasswordValid(old, new)
                  THEN Response("change_password", who, 400, 0, "validation")
                  ELSE IF check_password(old, users[who].password)
                  THEN Response("change_password", who, 200, 0, "")
                  ELSE Response("change_password", who, 400, 0, "wrong_password")
       /\ UNCHANGED <<users, tokens, nextKey, issued>>
       /\ UNCHANGED <<imgVars, loginVars, profVars, catVars, priceVars>>

\* a change_password that never compares the current credential
change_password_unchecked(c, old, new) ==
    LET who == Authenticate(c)
    IN /\ IF ~has_permission("change_password", who)
          THEN /\ last' = Response("change_password", who, DeniedStatus(who), 0, "denied")
               /\ users' = users
          ELSE IF ~ChangePasswordValid(old, new)
          THEN /\ last' = Response("change_password", who, 400, 0, "validation")
               /\ users' = users
          ELSE /\ users' = [users EXCEPT ![who].password = make_password(new)]
               /\ last' = Response("change_password", who,
                                   IF check_password(old, users[who].password)
                                   THEN 200 ELSE 400, 0,
                                   IF check_password(old, users[who].password)
                                   THEN "" ELSE "wrong_password")
       /\ UNCHANGED <<tokens, nextKey, issued>>
       /\ UNCHANGED <<imgVars, loginVars, profVars, catVars, priceVars>>

\* a change_password that revokes the caller's token when it succeeds
change_password_revoking(c, old, new) ==
    LET who == Authenticate(c)
    IN /\ IF ~has_permission("change_password", who)
          THEN /\ last' = Response("change_password", who, DeniedStatus(who), 0, "denied")
               /\ UNCHANGED <<users, tokens, issued>>
          ELSE IF ~ChangePasswordValid(old, new)
          THEN /\ last' = Response("change_password", who, 400, 0, "validation")
               /\ UNCHANGED <<users, tokens, issued>>
          ELSE IF check_password(old, users[who].password)
          THEN /\ users' = [users EXCEPT ![who].password = make_password(new)]
               /\ tokens' = tokens \ TokensOf(tokens, who)
               /\ issued' = [issued EXCEPT ![who] = 0]
               /\ last' = Response("change_password", who, 200, 0, "")
          ELSE /\ last' = Response("change_password", who, 400, 0, "wrong_password")
               /\ UNCHANGED <<users, tokens, issued>>
       /\ UNCHANGED nextKey
       /\ UNCHANGED <<imgVars, loginVars, profVars, catVars, priceVars>>

\* UserViewSet.change_password
change_password(c, old, new) ==
    LET who == Authenticate(c)
    IN /\ IF ~has_permission("change_password", who)
          THEN /\ last' = Response("change_password", who, DeniedStatus(who), 0, "denied")
               /\ users' = users
          ELSE IF ~ChangePasswordValid(old, new)
          THEN /\ last' = Response("change_password", who, 400, 0, "validation")
               /\ users' = users
          ELSE IF check_password(old, users[who].password)
          THEN /\ users' = [users EXCEPT ![who].password = make_password(new)]
               /\ last' = Response("change_password", who, 200, 0, "")
          ELSE /\ last' = Response("change_password", who, 400, 0, "wrong_password")
               /\ users' = users
       /\ UNCHANGED <<tokens, nextKey, issued>>
       /\ UNCHANGED <<imgVars, loginVars, profVars, catVars, priceVars>>

\* a deactivate that also deletes the target's token
SetActive_revoking(op, c, target, flag) ==
    LET who == Authenticate(c)
    IN /\ IF ~has_permission(op, who)
          THEN /\ last' = Response(op, target, DeniedStatus(who), 0, "denied")
               /\ UNCHANGED <<users, tokens, issued>>
          ELSE IF target \notin get_queryset(who)
          THEN /\ last' = Response(op, target, 404, 0, "not_found")
               /\ UNCHANGED <<users, tokens, issued>>
          ELSE /\ users' = [users EXCEPT ![target].is_active = flag]
               /\ tokens' = IF flag THEN tokens ELSE tokens \ TokensOf(tokens, target)
               /\ issued' = IF flag THEN issued ELSE [issued EXCEPT ![target] = 0]
               /\ last' = Response(op, target, 200, 0, "")
       /\ UNCHANGED nextKey
       /\ UNCHANGED <<imgVars, loginVars, profVars, catVars, priceVars>>

\* UserViewSet.deactivate (flag = FALSE) and UserViewSet.activate (flag = TRUE):
\* permission check, then get_object() on get_queryset(), then the write
SetActive(op, c, target, flag) ==
    LET who == Authenticate(c)
    IN /\ IF ~has_permission(op, who)
          THEN /\ last' = Response(op, target, DeniedStatus(who), 0, "denied")
               /\ users' = users
          ELSE IF target \notin get_queryset(who)
          THEN /\ last' = Response(op, target, 404, 0, "not_found")
               /\ users' = users
          ELSE /\ users' = [users EXCEPT ![target].is_active = flag]
               /\ last' = Response(op, target, 200, 0, "")
       /\ UNCHANGED <<tokens, nextKey, issued>>
       /\ UNCHANGED <<imgVars, loginVars, profVars, catVars, priceVars>>

\* UserViewSet.destroy (ModelViewSet): the user row goes, and with it the rows
\* that belong to it (Token.user and UserProfile.user cascade)
destroy(c, target) ==
    LET who == Authenticate(c)
    IN /\ IF ~has_permission("destroy", who)
          THEN /\ last' = Response("destroy", target, DeniedStatus(who), 0, "denied")
               /\ UNCHANGED <<users, tokens, issued, details, profiles>>
          ELSE IF target \notin get_queryset(who)
          THEN /\ last' = Response("destroy", target, 404, 0, "not_found")
               /\ UNCHANGED <<users, tokens, issued, details, profiles>>
          ELSE /\ users' = [users EXCEPT ![target] = NoUser]
               /\ tokens' = tokens \ TokensOf(tokens, target)
               /\ issued' = [issued EXCEPT ![target] = 0]
               /\ details' = [details EXCEPT ![target] = 0]
               /\ profiles' = [i \in ProfileIds |->
                                 IF profiles[i].user = target
                                 THEN NoProfile
                                 ELSE profiles[i]]
               /\ last' = Response("destroy", target, 204, 0, "")
       /\ UNCHANGED nextKey
       /\ UNCHANGED <<imgVars, loginVars, seen, catVars, priceVars>>

RegisterViewSet == \E n \in Names, pw \in Passwords : \E cf \in {pw, 0} : Register(n, pw, cf)

RegisterView == \E n \in Names, pw \in Passwords : \E cf \in {pw, 0} : Register(n, pw, cf)

LoginViewSet == \E n \in Names, pw \in Passwords : Login(n, pw)

LoginView == \E n \in Names, pw \in Passwords : Login(n, pw)

Logout == \E c \in Creds : UserViewSet_logout(c)

LogoutView == \E c \in Creds : logout_view(c)

ChangePassword == \E c \in Creds, old, new \in Passwords : change_password(c, old, new)

Deactivate == \E c \in Creds, t \in Names : SetActive("deactivate", c, t, FALSE)

Activate == \E c \in Creds, t \in Names : SetActive("activate", c, t, TRUE)

Destroy == \E c \in Creds, t \in Names : destroy(c, t)

(***************************************************************************)
(* UserViewSet and UserProfileViewSet: retrieve, update, list, create      *)
(***************************************************************************)
\* the representation of a principal in a response body
UserRecord(u) == [id |-> u, data |-> details[u]]

\* UserViewSet.retrieve (ModelViewSet): permission check, then get_object()
UserViewSet_retrieve(c, target) ==
    LET who == Authenticate(c)
    IN /\ IF ~has_permission("retrieve", who)
          THEN /\ last' = Response("retrieve", target, DeniedStatus(who), 0, "denied")
               /\ seen' = {}
          ELSE IF target \notin get_queryset(who)
          THEN /\ last' = Response("retrieve", target, 404, 0, "not_found")
               /\ seen' = {}
          ELSE /\ last' = Response("retrieve", target, 200, 0, "")
               /\ seen' = {UserRecord(target)}
       /\ UNCHANGED <<users, tokens, nextKey, issued, details, profiles>>
       /\ UNCHANGED <<imgVars, loginVars, catVars, priceVars>>

\* UserViewSet.update and UserViewSet.partial_update (ModelViewSet)
UserViewSet_update(op, c, target, d) ==
    LET who == Authenticate(c)
    IN /\ IF ~has_permission(op, who)
          THEN /\ last' = Response(op, target, DeniedStatus(who), 0, "denied")
               /\ seen' = {}
               /\ details' = details
          ELSE IF target \notin get_queryset(who)
          THEN /\ last' = Response(op, target, 404, 0, "not_found")
               /\ seen' = {}
               /\ details' = details
          ELSE /\ details' = [details EXCEPT ![target] = d]
               /\ last' = Response(op, target, 200, 0, "")
               /\ seen' = {[id |-> target, data |-> d]}
       /\ UNCHANGED <<users, tokens, nextKey, issued, profiles>>
       /\ UNCHANGED <<imgVars, loginVars, catVars, priceVars>>

\* UserViewSet.list (ModelViewSet): permission check, then get_queryset()
UserViewSet_list(c) ==
    LET who == Authenticate(c)
    IN /\ IF ~has_permission("list", who)
          THEN /\ last' = Response("list", who, DeniedStatus(who), 0, "denied")
               /\ seen' = {}
          ELSE /\ last' = Response("list", who, 200, 0, "")
               /\ seen' = {UserRecord(u) : u \in get_queryset(who)}
       /\ UNCHANGED <<users, tokens, nextKey, issued, details, profiles>>
       /\ UNCHANGED <<imgVars, loginVars, catVars, priceVars>>

StoredProfiles == {i \in ProfileIds : profiles[i].user # ""}

ProfilesOf(profs, u) == {i \in ProfileIds : profs[i].user = u}

\* the representation of a profile in a response body
ProfileRecord(i) == [id |-> i, user |-> profiles[i].user, data |-> profiles[i].data]

\* UserProfileViewSet.get_permissions: the permission class chosen for an action
UserProfileViewSet_get_permissions(action) ==
    IF action \in {"list", "destroy"} THEN "IsAdminUser"
    ELSE IF action \in {"retrieve", "update", "partial_update", "create"}
    THEN "IsAuthenticated"
    ELSE "IsAuthenticated"

UserProfileViewSet_has_permission(action, who) ==
    IF UserProfileViewSet_get_permissions(action) = "IsAdminUser"
    THEN IsAdminUser(who)
    ELSE IsAuthenticated(who)

\* UserProfileViewSet.get_queryset
UserProfileViewSet_get_queryset(who) ==
    IF users[who].is_staff THEN StoredProfiles ELSE ProfilesOf(profiles, who)

\* UserProfile.user as a plain foreign key: any number of profiles per user
ProfileUserNotUnique(profs, u) == TRUE

\* UserProfile.user is one-to-one: an INSERT for u is accepted only if u has
\* no profile
ProfileUserUnique(profs, u) == ProfilesOf(profs, u) = {}

NewProfileId == CHOOSE i \in ProfileIds \ StoredProfiles :
                    \A j \in ProfileIds \ StoredProfiles : i <= j

\* serializer.save(user=owner) with the owner taken from the payload
perform_create_payload_owner(who, owner, d) == [user |-> owner, data |-> d]

\* UserProfileViewSet.perform_create: serializer.save(user=self.request.user)
perform_create(who, owner, d) == [user |-> who, data |-> d]

\* UserProfileViewSet.create (ModelViewSet): the payload names an owner and
\* the profile fields
UserProfileViewSet_create(c, owner, d) ==
    LET who == Authenticate(c)
        row == perform_create(who, owner, d)
    IN /\ IF ~UserProfileViewSet_has_permission("create", who)
          THEN /\ last' = Response("profile_create", who, DeniedStatus(who), 0, "denied")
               /\ UNCHANGED <<profiles, seen>>
          ELSE IF ~ProfileUserUnique(profiles, row.user)
          THEN \* the INSERT raises IntegrityError
               /\ last' = Response("profile_create", who, 500, 0, "IntegrityError")
               /\ UNCHANGED <<profiles, seen>>
          ELSE /\ StoredProfiles # ProfileIds
               /\ profiles' = [profiles EXCEPT ![NewProfileId] = row]
               /\ last' = Response("profile_create", who, 201, NewProfileId, "")
               /\ seen' = {[id |-> NewProfileId, user |-> row.user, data |-> row.data]}
       /\ UNCHANGED <<users, tokens, nextKey, issued, details>>
       /\ UNCHANGED <<imgVars, loginVars, catVars, priceVars>>

\* UserProfileViewSet.retrieve (ModelViewSet)
UserProfileViewSet_retrieve(c, pk) ==
    LET who == Authenticate(c)
    IN /\ IF ~UserProfileViewSet_has_permission("retrieve", who)
          THEN /\ last' = Response("profile_retrieve", who, DeniedStatus(who), pk, "denied")
               /\ seen' = {}
          ELSE IF pk \notin UserProfileViewSet_get_queryset(who)
          THEN /\ last' = Response("profile_retrieve", who, 404, pk, "not_found")
               /\ seen' = {}
          ELSE /\ last' = Response("profile_retrieve", who, 200, pk, "")
               /\ seen' = {ProfileRecord(pk)}
       /\ UNCHANGED <<users, tokens, nextKey, issued, details, profiles>>
       /\ UNCHANGED <<imgVars, loginVars, catVars, priceVars>>

\* UserProfileViewSet.update / partial_update with perform_update
UserProfileViewSet_update(op, c, pk, d) ==
    LET who == Authenticate(c)
    IN /\ IF ~UserProfileViewSet_has_permission(op, who)
          THEN /\ last' = Response("profile_update", who, DeniedStatus(who), pk, "denied")
               /\ seen' = {}
               /\ profiles' = profiles
          ELSE IF pk \notin UserProfileViewSet_get_queryset(who)
          THEN /\ last' = Response("profile_update", who, 404, pk, "not_found")
               /\ seen' = {}
               /\ profiles' = profiles
          ELSE /\ profiles' = [profiles EXCEPT ![pk].data = d]
               /\ last' = Response("profile_update", who, 200, pk, "")
               /\ seen' = {[id |-> pk, user |-> profiles[pk].user, data |-> d]}
       /\ UNCHANGED <<users, tokens, nextKey, issued, details>>
       /\ UNCHANGED <<imgVars, loginVars, catVars, priceVars>>

\* UserProfileViewSet.list (ModelViewSet)
UserProfileViewSet_list(c) ==
    LET who == Authenticate(c)
    IN /\ IF ~UserProfileViewSet_has_permission("list", who)
          THEN /\ last' = Response("profile_list", who, DeniedStatus(who), 0, "denied")
               /\ seen' = {}
          ELSE /\ last' = Response("profile_list", who, 200, 0, "")
               /\ seen' = {ProfileRecord(i) : i \in UserProfileViewSet_get_queryset(who)}
       /\ UNCHANGED <<users, tokens, nextKey, issued, details, profiles>>
       /\ UNCHANGED <<imgVars, loginVars, catVars, priceVars>>

UpdateOps == {"update", "partial_update"}

\* registrations that all use one acceptable password
RegisterPrincipal == \E n \in Names : Register(n, MaxPw, MaxPw)

RetrieveUser == \E c \in Creds, t \in Names : UserViewSet_retrieve(c, t)

UpdateUser ==
    \E op \in UpdateOps, c \in Creds, t \in Names, d \in Data :
        UserViewSet_update(op, c, t, d)

ListUsers == \E c \in Creds : UserViewSet_list(c)

CreateProfile ==
    \E c \in Creds, o \in Names, d \in Data : UserProfileViewSet_create(c, o, d)

RetrieveProfile == \E c \in Creds, pk \in ProfileIds : UserProfileViewSet_retrieve(c, pk)

UpdateProfile ==
    \E op \in UpdateOps, c \in Creds, pk \in ProfileIds, d \in Data :
        UserProfileViewSet_update(op, c, pk, d)

ListProfiles == \E c \in Creds : UserProfileViewSet_list(c)

(***************************************************************************)
(* Two concurrent logins: Token.objects.get_or_create statement by         *)
(* statement (SELECT; INSERT in a savepoint; SELECT again on               *)
(* IntegrityError)                                                         *)
(***************************************************************************)
LoginInFlight(r) == lpc[r] \in {"get", "create", "reget"}

NoLogin == [user |-> "anon", key |-> 0, conflict |-> FALSE]

\* serializer.is_valid() of one login request
LoginBegin(r, name, pw) ==
    /\ ~LoginInFlight(r)
    /\ lreq' = [lreq EXCEPT ![r] = [NoLogin EXCEPT !.user = name]]
    /\ lpc' = [lpc EXCEPT ![r] = IF LoginValid(name, pw) THEN "get" ELSE "rejected"]
    /\ UNCHANGED <<accVars, imgVars, profVars, catVars, priceVars>>

\* get_or_create: self.get(user=user)
LoginGet(r) ==
    /\ lpc[r] = "get"
    /\ IF TokensOf(tokens, lreq[r].user) # {}
       THEN /\ lpc' = [lpc EXCEPT ![r] = "done"]
            /\ lreq' = [lreq EXCEPT ![r].key = KeyOf(tokens, lreq[r].user)]
            /\ issued' = [issued EXCEPT ![lreq[r].user] = KeyOf(tokens, lreq[r].user)]
       ELSE /\ lpc' = [lpc EXCEPT ![r] = "create"]
            /\ UNCHANGED <<lreq, issued>>
    /\ UNCHANGED <<users, tokens, nextKey, last, imgVars, profVars, catVars, priceVars>>

\* get_or_create: self.create(user=user) inside transaction.atomic()
LoginCreate(r) ==
    /\ lpc[r] = "create"
    /\ nextKey <= MaxKeys
    /\ IF TokenUserUnique(tokens, lreq[r].user)
       THEN /\ tokens' = tokens \cup {[key |-> nextKey, user |-> lreq[r].user]}
            /\ nextKey' = nextKey + 1
            /\ lpc' = [lpc EXCEPT ![r] = "done"]
            /\ lreq' = [lreq EXCEPT ![r].key = nextKey]
            /\ issued' = [issued EXCEPT ![lreq[r].user] = nextKey]
       ELSE /\ lpc' = [lpc EXCEPT ![r] = "reget"]
            /\ lreq' = [lreq EXCEPT ![r].conflict = TRUE]
            /\ UNCHANGED <<tokens, nextKey, issued>>
    /\ UNCHANGED <<users, last, imgVars, profVars, catVars, priceVars>>

\* get_or_create: except IntegrityError: self.get(user=user), else re-raise
LoginReget(r) ==
    /\ lpc[r] = "reget"
    /\ IF TokensOf(tokens, lreq[r].user) # {}
       THEN /\ lpc' = [lpc EXCEPT ![r] = "done"]
            /\ lreq' = [lreq EXCEPT ![r].key = KeyOf(tokens, lreq[r].user)]
            /\ issued' = [issued EXCEPT ![lreq[r].user] = KeyOf(tokens, lreq[r].user)]
       ELSE /\ lpc' = [lpc EXCEPT ![r] = "error"]
            /\ UNCHANGED <<lreq, issued>>
    /\ UNCHANGED <<users, tokens, nextKey, last, imgVars, profVars, catVars, priceVars>>

BeginLogin == \E r \in Requests, n \in Names, pw \in Passwords : LoginBegin(r, n, pw)

GetToken == \E r \in Requests : LoginGet(r)

CreateToken == \E r \in Requests : LoginCreate(r)

RegetToken == \E r \in Requests : LoginReget(r)

(***************************************************************************)
(* Specifications                                                          *)
(***************************************************************************)
InitTables ==
    /\ images = [i \in ImageIds |-> NoRow]
    /\ imgLast = ImgOutcome("none", 0, 0, FALSE)
    /\ pc = [r \in Requests |-> "idle"]
    /\ req = [r \in Requests |->
                [img |-> 0, product |-> 0, is_primary |-> FALSE, demoted |-> FALSE]]
    /\ conc = FALSE
    /\ users = [u \in Names |->
                  IF u = "admin"
                  THEN [exists |-> TRUE, password |-> make_password(1),
                        is_active |-> TRUE, is_staff |-> TRUE]
                  ELSE NoUser]
    /\ tokens = {}
    /\ nextKey = 1
    /\ issued = [u \in Names |-> 0]
    /\ last = Response("none", "anon", 0, 0, "")
    /\ lpc = [r \in Requests |-> "idle"]
    /\ lreq = [r \in Requests |-> NoLogin]
    /\ details = [u \in Names |-> 0]
    /\ profiles = [i \in ProfileIds |-> NoProfile]
    /\ seen = {}
    /\ brands = [b \in BrandIds |-> NoBrand]
    /\ categories = [i \in CategoryIds |-> NoCategory]
    /\ products = [p \in Products |->
                     [exists |-> TRUE, name |-> ProductTitle(p),
                      slug |-> slugify(ProductTitle(p)), category |-> 0, brand |-> 0]]
    /\ catLast = CatOutcome("none", "none", 0)

Init ==
    /\ InitTables
    /\ item = [price |-> 0, discount_price |-> <<>>, stock |-> 0]
    /\ props = NotRead

\* any Product instance, its properties not read yet
InitPricing ==
    /\ InitTables
    /\ item \in Items
    /\ props = NotRead

NextImage == SaveImage

SpecImage == Init /\ [][NextImage]_vars

NextImageConc == Start \/ Demote \/ Write

SpecImageConc == Init /\ [][NextImageConc]_vars

\* the handlers that create, return or delete tokens, and deactivation
NextToken ==
    \/ RegisterViewSet
    \/ LoginViewSet
    \/ LoginView
    \/ Logout
    \/ LogoutView
    \/ Deactivate
    \/ Destroy

SpecToken == Init /\ [][NextToken]_vars

\* the handlers that write or check the stored credential
NextPassword ==
    \/ RegisterViewSet
    \/ LoginViewSet
    \/ Logout
    \/ ChangePassword

SpecPassword == Init /\ [][NextPassword]_vars

\* the handlers that write the active flag or delete a principal
NextAdmin ==
    \/ RegisterViewSet
    \/ Deactivate
    \/ Activate
    \/ Destroy

SpecAdmin == Init /\ [][NextAdmin]_vars

NextAuthConc ==
    \/ RegisterView
    \/ Logout
    \/ BeginLogin
    \/ GetToken
    \/ CreateToken
    \/ RegetToken

SpecAuthConc == Init /\ [][NextAuthConc]_vars

\* the handlers that read, list and write principal records and profiles
NextProfile ==
    \/ RegisterPrincipal
    \/ RetrieveUser
    \/ UpdateUser
    \/ ListUsers
    \/ CreateProfile
    \/ RetrieveProfile
    \/ UpdateProfile
    \/ ListProfiles

SpecProfile == Init /\ [][NextProfile]_vars

\* saves of the three slugged entity types with names and slugs of the
\* caller's choosing
NextSlug == SaveBrand \/ SaveCategory \/ SaveProduct

SpecSlug == Init /\ [][NextSlug]_vars

\* saves with names and slugs of the caller's choosing, and renames of
\* stored rows
NextRename ==
    \/ SaveBrand
    \/ SaveCategory
    \/ SaveProduct
    \/ RenameBrand
    \/ RenameCategory
    \/ RenameProduct

SpecRename == Init /\ [][NextRename]_vars

\* the category tree under creation, re-parenting and deletion
NextCategory == AddCategory \/ MoveCategory \/ DeleteCategory

SpecCategory == Init /\ [][NextCategory]_vars

\* creation, linking and deletion of categories, brands, products and images
NextCatalog ==
    \/ AddCategory
    \/ DeleteCategory
    \/ AddBrand
    \/ DeleteBrand
    \/ AddProduct
    \/ LinkProduct
    \/ DeleteProduct
    \/ AddImage

SpecCatalog == Init /\ [][NextCatalog]_vars

NextPricing == ReadProperties

SpecPricing == InitPricing /\ [][NextPricing]_vars

(***************************************************************************)
(* Claims about ProductImage                                               *)
(***************************************************************************)

\* C1: in every reachable state every product has at most one image with
\* is_primary = TRUE (checked under interleaved saves, which include every
\* sequential order of saves).
C1_AtMostOnePrimary ==
    \A p \in Products : Cardinality(PrimariesOf(images, p)) <= 1

\* a primary save has completed on a product that holds a second image,
\* which is stored non-primary beside it
C1_Witness ==
    \E r \in Requests :
        /\ pc[r] = "done"
        /\ req[r].is_primary
        /\ Cardinality(ImagesOf(images, req[r].product)) = 2
        /\ Cardinality(PrimariesOf(images, req[r].product)) = 1

\* C2: last writer wins: a save with is_primary = TRUE always succeeds,
\* the saved image is then primary and no other image of the product is.
C2_LastWriterWins ==
    (imgLast.status # "none" /\ imgLast.is_primary)
        => /\ imgLast.status = "ok"
           /\ images[imgLast.img] = Row(imgLast.product, TRUE)
           /\ PrimariesOf(images, imgLast.product) = {imgLast.img}

\* C3: once two overlapping saves of two images with is_primary = TRUE for
\* the same product have both finished, exactly one image of that product
\* is primary.
RacedPrimaries ==
    /\ conc
    /\ \A r \in Requests : Finished(r) /\ req[r].is_primary
    /\ req[1].product = req[2].product
    /\ req[1].img = 0 \/ req[1].img # req[2].img

C3_ExactlyOnePrimaryAfterRace ==
    RacedPrimaries => Cardinality(PrimariesOf(images, req[1].product)) = 1

\* both racing saves got past their demotion before either wrote, and the
\* later write was refused
C3_Witness ==
    /\ RacedPrimaries
    /\ \E r \in Requests : pc[r] = "failed"
    /\ \E r \in Requests : pc[r] = "done"

(***************************************************************************)
(* Claims about accounts                                                   *)
(***************************************************************************)

\* C4: at most one live token per principal in every reachable state, under
\* registrations, logouts and every interleaving of two logins' get-or-create.
C4_OneTokenPerPrincipal ==
    \A u \in Names : Cardinality(TokensOf(tokens, u)) <= 1

\* two logins of one principal both missed on the first SELECT; one INSERT
\* was refused and that login read back the other's token
C4_Witness ==
    /\ \A r \in Requests : lpc[r] = "done"
    /\ lreq[1].user = lreq[2].user
    /\ lreq[1].key = lreq[2].key
    /\ \E r \in Requests : lreq[r].conflict

\* C5: the token a successful registration returns resolves to exactly the
\* registered principal, and a later successful login with no logout in
\* between returns that same token value and creates no token.
C5_IdempotentIssuance ==
    [][/\ last'.status = 201 =>
              \A n \in Names, pw \in Passwords : \A cf \in {pw, 0} :
                  Register(n, pw, cf)
                      => {t.user : t \in {x \in tokens' : x.key = last'.key}} = {n}
       /\ last'.status = 200 =>
              \A n \in Names, pw \in Passwords :
                  (Login(n, pw) /\ issued[n] # 0)
                      => /\ last'.key = issued[n]
                         /\ tokens' = tokens
                         /\ nextKey' = nextKey]_vars

\* alice registered (the only key ever generated) and a login then returned
\* that key
C5_Witness ==
    /\ last.op = "login"
    /\ last.status = 200
    /\ last.user = "alice"
    /\ last.key = 1
    /\ nextKey = 2
    /\ tokens = {[key |-> 1, user |-> "alice"]}

\* C6: logout deletes the caller's token and nobody else's, the deleted key
\* resolves to no principal afterwards; a caller without a token (anonymous
\* on logout_view included) gets an error and nothing changes.
C6_Logout ==
    [][last'.op \in {"logout", "logout_view"} => \A c \in Creds :
          (UserViewSet_logout(c) \/ logout_view(c)) =>
              LET who == Authenticate(c)
              IN IF who \in Names /\ TokensOf(tokens, who) # {}
                 THEN /\ last'.status = 200
                      /\ TokensOf(tokens', who) = {}
                      /\ \A u \in Names \ {who} : TokensOf(tokens', u) = TokensOf(tokens, u)
                      /\ \A t \in TokensOf(tokens, who) : \A x \in tokens' : x.key # t.key
                      /\ users' = users
                 ELSE /\ last'.status \in {400, 401}
                      /\ (who = "anon" /\ last'.op = "logout_view") => last'.status = 400
                      /\ UNCHANGED <<users, tokens, nextKey>>]_vars

\* a principal has logged out while another principal holds a token
C6_Witness ==
    /\ last.op \in {"logout", "logout_view"}
    /\ last.status = 200
    /\ TokensOf(tokens, last.user) = {}
    /\ \E u \in Names \ {last.user} : TokensOf(tokens, u) # {}

\* C7: a login failing for an unknown identifier, a wrong credential or an
\* inactive principal gets the same 401 with the same body and no token, and
\* no token is created, deleted or changed.
C7_FailedLogin ==
    [][last'.op = "login" => \A n \in Names, pw \in Passwords :
          (/\ Login(n, pw)
           /\ \/ ~users[n].exists
              \/ ~check_password(pw, users[n].password)
              \/ ~users[n].is_active)
              => /\ last'.status = 401
                 /\ last'.detail = "invalid_credentials"
                 /\ last'.key = 0
                 /\ UNCHANGED <<users, tokens, nextKey>>]_vars

\* a login was refused for a deactivated principal that still holds a token
C7_Witness ==
    /\ last.op = "login"
    /\ last.status = 401
    /\ users[last.user].exists
    /\ ~users[last.user].is_active
    /\ TokensOf(tokens, last.user) # {}

\* C8 as stated: after every successful change_password the old credential
\* no longer verifies and the new one does.
C8_OldNoLongerVerifies ==
    [][last'.status = 200 => \A c \in Creds, old, new \in Passwords :
          change_password(c, old, new) =>
              LET who == Authenticate(c)
              IN /\ ~check_password(old, users'[who].password)
                 /\ check_password(new, users'[who].password)]_vars

\* C8 amended: after a successful change_password the new credential
\* verifies, and the old one no longer does when it differs from the new one.
C8_OldNoLongerVerifiesIfDifferent ==
    [][last'.status = 200 => \A c \in Creds, old, new \in Passwords :
          change_password(c, old, new) =>
              LET who == Authenticate(c)
              IN /\ old # new => ~check_password(old, users'[who].password)
                 /\ check_password(new, users'[who].password)]_vars

\* the administrator, created with password 1, has changed it to password 2
C8_Witness ==
    /\ last.op = "change_password"
    /\ last.status = 200
    /\ last.user = "admin"
    /\ check_password(2, users["admin"].password)
    /\ ~check_password(1, users["admin"].password)

\* C9 as stated: a change_password whose current credential does not match
\* gets the credential-mismatch error, and credential and token are unchanged.
C9_MismatchError ==
    [][last'.op = "change_password" => \A c \in Creds, old, new \in Passwords :
          LET who == Authenticate(c)
          IN (/\ change_password(c, old, new)
              /\ who \in Names
              /\ ~check_password(old, users[who].password))
                 => /\ last'.status = 400
                    /\ last'.detail = "wrong_password"
                    /\ users' = users
                    /\ tokens' = tokens]_vars

\* C9 amended: such a call gets a 400 and leaves credential and token
\* unchanged; the 400 is the credential-mismatch error when the new
\* credential passes validation, and the validation error otherwise.
C9_MismatchErrorIfValid ==
    [][last'.op = "change_password" => \A c \in Creds, old, new \in Passwords :
          LET who == Authenticate(c)
          IN (/\ change_password(c, old, new)
              /\ who \in Names
              /\ ~check_password(old, users[who].password))
                 => /\ last'.status = 400
                    /\ last'.detail = IF ChangePasswordValid(old, new)
                                      THEN "wrong_password"
                                      ELSE "validation"
                    /\ users' = users
                    /\ tokens' = tokens
                    /\ c.kind = "token" =>
                           \E t \in tokens' : t.key = c.key /\ t.user = who]_vars

\* a token-holding principal was told its current credential is wrong
C9_Witness ==
    /\ last.op = "change_password"
    /\ last.status = 400
    /\ last.detail = "wrong_password"
    /\ last.user \in Names
    /\ TokensOf(tokens, last.user) # {}

\* C10: deactivate, activate and destroy called by an authenticated
\* non-administrator are refused with 403 and leave the target as it was.
C10_AdminOnly ==
    [][last'.op \in {"deactivate", "activate", "destroy"} =>
       \A c \in Creds, t \in Names :
          LET who == Authenticate(c)
          IN (/\ \/ SetActive("deactivate", c, t, FALSE)
                 \/ SetActive("activate", c, t, TRUE)
                 \/ destroy(c, t)
              /\ who \in Names
              /\ ~users[who].is_staff)
                 => /\ last'.status = 403
                    /\ users'[t] = users[t]]_vars

\* C22: a successful change_password writes the caller's stored credential
\* and nothing else: the token table is as before, a token the call was made
\* with still resolves to the caller, the caller keeps its other fields, and
\* every other principal's credential, token and active flag are unchanged.
C22_OnlyCallerCredential ==
    [][(last'.op = "change_password" /\ last'.status = 200) =>
       \A c \in Creds, old, new \in Passwords :
          change_password(c, old, new) =>
              LET who == Authenticate(c)
              IN /\ who \in Names
                 /\ tokens' = tokens
                 /\ nextKey' = nextKey
                 /\ TokensOf(tokens', who) = TokensOf(tokens, who)
                 /\ c.kind = "token" => AuthenticateIn(users', tokens', c) = who
                 /\ \A t \in TokensOf(tokens, who) :
                        AuthenticateIn(users', tokens',
                                       [kind |-> "token", key |-> t.key, user |-> "anon"]) = who
                 /\ users'[who] = [users[who] EXCEPT !.password = make_password(new)]
                 /\ \A u \in Names \ {who} :
                        /\ users'[u] = users[u]
                        /\ TokensOf(tokens', u) = TokensOf(tokens, u)]_vars

\* alice, registered with password 1 and holding the first token, has
\* changed her password to 2 while the administrator holds a token as well
C22_Witness ==
    /\ last.op = "change_password"
    /\ last.status = 200
    /\ last.user = "alice"
    /\ [key |-> 1, user |-> "alice"] \in tokens
    /\ TokensOf(tokens, "admin") # {}
    /\ check_password(2, users["alice"].password)
    /\ users["alice"].is_active
    /\ check_password(1, users["admin"].password)

(***************************************************************************)
(* Claims about principal records and profiles                             *)
(***************************************************************************)

\* C11: a retrieve, update or partial update that a non-administrator aims
\* at another principal's record or profile fails and leaves it unchanged;
\* aimed at its own it succeeds; an administrator's succeeds on any record
\* or profile.
C11_OwnRecordOnly ==
    [][/\ last'.op \in {"retrieve", "update", "partial_update"} =>
              \A c \in Creds, d \in Data :
                  LET who == Authenticate(c)
                      t == last'.user
                  IN (/\ who \in Names
                      /\ users[t].exists
                      /\ \/ UserViewSet_retrieve(c, t)
                         \/ UserViewSet_update(last'.op, c, t, d))
                         => IF users[who].is_staff \/ t = who
                            THEN /\ last'.status = 200
                                 /\ last'.op \in UpdateOps => details'[t] = d
                                 /\ seen' = {[id |-> t, data |-> details'[t]]}
                            ELSE /\ last'.status >= 400
                                 /\ details' = details
                                 /\ users' = users
                                 /\ seen' = {}
       /\ last'.op \in {"profile_retrieve", "profile_update"} =>
              \A c \in Creds, d \in Data, op \in UpdateOps :
                  LET who == Authenticate(c)
                      pk == last'.key
                  IN (/\ who \in Names
                      /\ pk \in StoredProfiles
                      /\ \/ UserProfileViewSet_retrieve(c, pk)
                         \/ UserProfileViewSet_update(op, c, pk, d))
                         => IF users[who].is_staff \/ profiles[pk].user = who
                            THEN /\ last'.status = 200
                                 /\ last'.op = "profile_update"
                                        => profiles'[pk].data = d
                                 /\ seen' = {[id |-> pk, user |-> profiles[pk].user,
                                              data |-> profiles'[pk].data]}
                            ELSE /\ last'.status >= 400
                                 /\ profiles' = profiles
                                 /\ seen' = {}]_vars

\* alice's update of the administrator's record was answered 404 and the
\* administrator's profile and record are as they were created
C11_Witness ==
    /\ last.op = "update"
    /\ last.status = 404
    /\ last.user = "admin"
    /\ users["alice"].exists
    /\ details["admin"] = 0
    /\ ProfilesOf(profiles, "admin") # {}

\* C12 as stated: a list of principals or of profiles is never refused to a
\* principal: an administrator gets all records, a non-administrator gets
\* just its own.
C12_ListScoped ==
    [][/\ last'.op = "list" =>
              \A c \in Creds :
                  LET who == Authenticate(c)
                  IN (UserViewSet_list(c) /\ who \in Names)
                         => /\ last'.status = 200
                            /\ seen' = {UserRecord(u) :
                                           u \in IF users[who].is_staff
                                                 THEN Existing ELSE {who}}
       /\ last'.op = "profile_list" =>
              \A c \in Creds :
                  LET who == Authenticate(c)
                  IN (UserProfileViewSet_list(c) /\ who \in Names)
                         => /\ last'.status = 200
                            /\ seen' = {ProfileRecord(i) :
                                           i \in IF users[who].is_staff
                                                 THEN StoredProfiles
                                                 ELSE ProfilesOf(profiles, who)}]_vars

\* C12 amended: an administrator's list returns all records; a
\* non-administrator's list request is refused with 403 and returns nothing.
C12_ListAdminOnly ==
    [][/\ last'.op = "list" =>
              \A c \in Creds :
                  LET who == Authenticate(c)
                  IN (UserViewSet_list(c) /\ who \in Names)
                         => IF users[who].is_staff
                            THEN /\ last'.status = 200
                                 /\ seen' = {UserRecord(u) : u \in Existing}
                            ELSE /\ last'.status = 403
                                 /\ seen' = {}
       /\ last'.op = "profile_list" =>
              \A c \in Creds :
                  LET who == Authenticate(c)
                  IN (UserProfileViewSet_list(c) /\ who \in Names)
                         => IF users[who].is_staff
                            THEN /\ last'.status = 200
                                 /\ seen' = {ProfileRecord(i) : i \in StoredProfiles}
                            ELSE /\ last'.status = 403
                                 /\ seen' = {}]_vars

\* the administrator listed the profiles and got both principals' profiles
C12_Witness ==
    /\ last.op = "profile_list"
    /\ last.status = 200
    /\ Cardinality(seen) = 2
    /\ {r.user : r \in seen} = {"admin", "alice"}

\* C20: a profile created through create is owned by the caller whatever
\* owner the payload names; a create by a principal that has a profile adds
\* none; no principal ever owns two profiles.
C20_ProfileOwnedByCaller ==
    [][last'.op = "profile_create" =>
          \A c \in Creds, o \in Names, d \in Data :
              LET who == Authenticate(c)
              IN (UserProfileViewSet_create(c, o, d) /\ who \in Names)
                     => /\ IF ProfilesOf(profiles, who) = {}
                           THEN /\ last'.status = 201
                                /\ profiles'[last'.key] = [user |-> who, data |-> d]
                                /\ \A i \in ProfileIds \ {last'.key} :
                                       profiles'[i] = profiles[i]
                           ELSE /\ last'.status >= 400
                                /\ profiles' = profiles
                        /\ \A u \in Names : Cardinality(ProfilesOf(profiles', u)) <= 1]_vars

\* alice, who has a profile, asked for another one and was refused, while
\* a slot of the table is still free
C20_Witness ==
    /\ last.op = "profile_create"
    /\ last.status = 500
    /\ last.user = "alice"
    /\ Cardinality(ProfilesOf(profiles, "alice")) = 1
    /\ StoredProfiles # ProfileIds

(***************************************************************************)
(* Claims about deactivation                                               *)
(***************************************************************************)
TokenCred(k) == [kind |-> "token", key |-> k, user |-> "anon"]

\* C13 as stated: deactivating a principal that holds a token only clears
\* its active flag, the token stays, and a request carrying that token is
\* still accepted as the principal.
C13_TokenStillAccepted ==
    [][(last'.op = "deactivate" /\ last'.status = 200) =>
          \A c \in Creds :
              LET t == last'.user
              IN (SetActive("deactivate", c, t, FALSE) /\ TokensOf(tokens, t) # {})
                     => /\ tokens' = tokens
                        /\ users' = [users EXCEPT ![t].is_active = FALSE]
                        /\ AuthenticateIn(users', tokens', TokenCred(KeyOf(tokens, t))) = t]_vars

\* C13 amended: deactivating a principal that holds a token only clears its
\* active flag and the token stays, but a request carrying that token is
\* refused (401) while the principal is inactive.
C13_TokenKeptButRefused ==
    [][(last'.op = "deactivate" /\ last'.status = 200) =>
          \A c \in Creds :
              LET t == last'.user
              IN (SetActive("deactivate", c, t, FALSE) /\ TokensOf(tokens, t) # {})
                     => /\ tokens' = tokens
                        /\ users' = [users EXCEPT ![t].is_active = FALSE]
                        /\ AuthenticateIn(users', tokens', TokenCred(KeyOf(tokens, t))) = "failed"]_vars

\* alice, holding a token, has been deactivated and the token is still stored
C13_Witness ==
    /\ last.op = "deactivate"
    /\ last.status = 200
    /\ last.user = "alice"
    /\ ~users["alice"].is_active
    /\ TokensOf(tokens, "alice") # {}

(***************************************************************************)
(* Claims about the catalog                                                *)
(***************************************************************************)
\* the categories reached from j by following parent at most n times
RECURSIVE UpFrom(_, _, _)
UpFrom(cats, j, n) ==
    IF n = 0 \/ j = 0 THEN {}
    ELSE IF ~cats[j].exists \/ cats[j].parent = 0 THEN {}
    ELSE {cats[j].parent} \cup UpFrom(cats, cats[j].parent, n - 1)

AncestorsOf(cats, j) == UpFrom(cats, j, MaxCategories)

\* C14: no reachable state contains a category that is its own ancestor (a
\* save whose parent reference closes a cycle is rejected before any write).
C14_Acyclic ==
    \A i \in StoredRows(categories) : i \notin AncestorsOf(categories, i)

\* no category, product or image references a row that does not exist
NoDangling(cats, brs, prods, imgs) ==
    /\ \A i \in StoredRows(cats) : cats[i].parent = 0 \/ cats[cats[i].parent].exists
    /\ \A p \in StoredRows(prods) :
           /\ prods[p].category = 0 \/ cats[prods[p].category].exists
           /\ prods[p].brand = 0 \/ brs[prods[p].brand].exists
    /\ \A i \in Stored(imgs) : prods[imgs[i].product].exists

\* C15: deleting a category deletes exactly it and its descendants and no
\* product, and clears the category of the products that referenced one of
\* them; deleting a brand clears the brand of its products; deleting a product
\* deletes exactly its images; after every step no reference dangles.
C15_CascadeAndClear ==
    [][/\ catLast'.op = "Category.delete" =>
              \A i \in CategoryIds :
                  Category_delete(i) =>
                      LET gone == {j \in StoredRows(categories) :
                                      j = i \/ i \in AncestorsOf(categories, j)}
                      IN /\ StoredRows(categories') = StoredRows(categories) \ gone
                         /\ \A j \in StoredRows(categories') :
                                categories'[j] = categories[j]
                         /\ StoredRows(products') = StoredRows(products)
                         /\ \A p \in StoredRows(products) :
                                products'[p] =
                                    IF products[p].category \in gone
                                    THEN [products[p] EXCEPT !.category = 0]
                                    ELSE products[p]
                         /\ images' = images
                         /\ brands' = brands
       /\ catLast'.op = "Brand.delete" =>
              \A b \in BrandIds :
                  Brand_delete(b) =>
                      /\ ~brands'[b].exists
                      /\ StoredRows(products') = StoredRows(products)
                      /\ \A p \in StoredRows(products) :
                             products'[p] =
                                 IF products[p].brand = b
                                 THEN [products[p] EXCEPT !.brand = 0]
                                 ELSE products[p]
                      /\ images' = images
       /\ catLast'.op = "Product.delete" =>
              \A p \in Products :
                  Product_delete(p) =>
                      /\ ~products'[p].exists
                      /\ Stored(images') = Stored(images) \ ImagesOf(images, p)
                      /\ \A i \in Stored(images') : images'[i] = images[i]
                      /\ categories' = categories
                      /\ brands' = brands
       /\ NoDangling(categories', brands', products', images')]_vars

\* a category with a child and a grandchild was deleted, three rows went,
\* and the product that referenced one of them is still there, without
\* category, with its brand and its two images
C15_Witness ==
    /\ catLast.op = "Category.delete"
    /\ catLast.deleted = 3
    /\ products[1].exists
    /\ products[1].category = 0
    /\ products[1].brand # 0
    /\ Cardinality(ImagesOf(images, 1)) = 2

\* the slug django.utils.text.slugify gives each of the Titles
ExpectedSlug(n) ==
    IF n = <<"S", "h">> THEN <<"s", "h">>
    ELSE IF n = <<"s", "h">> THEN <<"s", "h">>
    ELSE <<"s", "-", "e">>

\* what C16 says of one save of row pk (0: a new row) of a table, with name
\* n and supplied slug s, that led from rows to rows2 with outcome out
SlugSaveAsClaimed(rows, rows2, out, i, n, s) ==
    LET want == IF s = <<>> THEN ExpectedSlug(n) ELSE s
        pk == IF i = 0 THEN NewRowId(rows) ELSE i
        taken == \E j \in StoredRows(rows) \ {pk} : rows[j].slug = want
    IN /\ taken => (out.status = "IntegrityError" /\ rows2 = rows)
       /\ out.status = "ok" =>
              /\ rows2[pk].slug = want
              /\ rows2[pk].name = n
              /\ \A j \in DOMAIN rows \ {pk} : rows2[j] = rows[j]
       /\ out.status # "ok" => rows2 = rows
       /\ \A j, k \in StoredRows(rows2) : j # k => rows2[j].slug # rows2[k].slug

\* C16: a Brand, Category or Product saved with no slug gets the
\* slugification of its name; a save whose slug another row of the type
\* holds fails, stores nothing and renames nothing; no two rows of a type
\* ever share a slug.
C16_SlugDerivedAndUnique ==
    [][/\ catLast'.op = "Brand.save" =>
              \A i \in {0} \cup StoredRows(brands), n \in Titles, s \in SuppliedSlugs :
                  Brand_save(i, n, s)
                      => SlugSaveAsClaimed(brands, brands', catLast', i, n, s)
       /\ catLast'.op = "Category.save" =>
              \A i \in {0} \cup StoredRows(categories), n \in Titles, s \in SuppliedSlugs :
                  Category_save(i, n, s, IF i = 0 THEN 0 ELSE categories[i].parent)
                      => SlugSaveAsClaimed(categories, categories', catLast', i, n, s)
       /\ catLast'.op = "Product.save" =>
              \A i \in StoredRows(products), n \in Titles,
                 s \in SuppliedSlugs \cup {<<"s", "s">>} :
                  Product_save(i, n, s, products[i].category, products[i].brand)
                      => SlugSaveAsClaimed(products, products', catLast', i, n, s)]_vars

\* a second category whose name slugifies to the stored category's slug was
\* refused, and so was a product given the other product's slug
C16_Witness ==
    /\ catLast.status = "IntegrityError"
    /\ catLast.op = "Category.save"
    /\ Cardinality(StoredRows(categories)) = 1
    /\ \E i \in StoredRows(categories) :
           categories[i].name = <<"S", "h">> /\ categories[i].slug = <<"s", "h">>
    /\ \E b \in StoredRows(brands) :
           brands[b].name = <<" ", "S", "!", " ", "-", "e_acute", "_">>
               /\ brands[b].slug = <<"s", "-", "e">>

\* C23: a Brand, Category or Product saved with a non-empty slug, supplied
\* by the caller or held by the stored row that is renamed, keeps exactly
\* that slug whatever its name has become; the slug is derived from the name
\* only when it is empty at save time.
C23_SlugKeptOnRename ==
    [][/\ (catLast'.op = "Brand.save" /\ catLast'.status = "ok") =>
              \A i \in {0} \cup StoredRows(brands) :
                 LET pk == IF i = 0 /\ StoredRows(brands) # BrandIds
                           THEN NewRowId(brands) ELSE i
                 IN \A s \in SuppliedSlugs \cup {brands[j].slug : j \in StoredRows(brands)} :
                       (/\ pk # 0
                        /\ brands'[pk].name \in Titles
                        /\ Brand_save(i, brands'[pk].name, s))
                           => /\ s # <<>> => brands'[pk].slug = s
                              /\ s = <<>> => brands'[pk].slug
                                                 = ExpectedSlug(brands'[pk].name)
       /\ (catLast'.op = "Category.save" /\ catLast'.status = "ok") =>
              \A i \in {0} \cup StoredRows(categories) :
                 LET pk == IF i = 0 /\ StoredRows(categories) # CategoryIds
                           THEN NewRowId(categories) ELSE i
                 IN \A s \in SuppliedSlugs
                              \cup {categories[j].slug : j \in StoredRows(categories)} :
                       (/\ pk # 0
                        /\ categories'[pk].name \in Titles
                        /\ Category_save(i, categories'[pk].name, s,
                                         IF i = 0 THEN 0 ELSE categories[i].parent))
                           => /\ s # <<>> => categories'[pk].slug = s
                              /\ s = <<>> => categories'[pk].slug
                                                 = ExpectedSlug(categories'[pk].name)
       /\ (catLast'.op = "Product.save" /\ catLast'.status = "ok") =>
              \A i \in CatalogProducts \cap StoredRows(products) :
                 \A s \in SuppliedSlugs \cup {<<"s", "s">>}
                           \cup {products[j].slug : j \in StoredRows(products)} :
                    (/\ products'[i].name \in Titles
                     /\ Product_save(i, products'[i].name, s,
                                     products[i].category, products[i].brand))
                        => /\ s # <<>> => products'[i].slug = s
                           /\ s = <<>> => products'[i].slug
                                              = ExpectedSlug(products'[i].name)]_vars

\* a brand whose slug "s-e" was derived from its first name has been renamed
\* to "Sh": it still holds "s-e", which is not the slugification of "Sh"
C23_Witness ==
    /\ catLast.op = "Brand.save"
    /\ catLast.status = "ok"
    /\ \E b \in StoredRows(brands) :
           /\ brands[b].name = <<"S", "h">>
           /\ brands[b].slug = <<"s", "-", "e">>
           /\ brands[b].slug # slugify(brands[b].name)

\* C17: has_discount is true exactly when discount_price is set and below
\* price; discount_percentage is 0 when discount_price is absent or >= price
\* and otherwise the hundredth of a percent nearest to
\* 100 * (price - discount_price) / price, the even one on a tie;
\* is_in_stock is true exactly when stock > 0.
C17_Properties ==
    props.read =>
        LET set == item.discount_price # <<>>
            dp == IF set THEN item.discount_price[1] ELSE 0
            pct == props.discount_percentage
            exact == 10000 * (item.price - dp)
            err == pct * item.price - exact
            dist == IF err < 0 THEN 0 - err ELSE err
        IN /\ props.has_discount <=> (set /\ dp < item.price)
           /\ (~set \/ dp >= item.price) => pct = 0
           /\ (set /\ dp < item.price) =>
                  /\ 2 * dist <= item.price
                  /\ 2 * dist = item.price => pct % 2 = 0
           /\ props.is_in_stock <=> item.stock > 0

\* price 32.00 with discount price 31.00: 3.125 percent is rounded to the
\* even 3.12; the product is in stock
C17_Witness ==
    /\ props.read
    /\ item.price = 32
    /\ item.discount_price = <<31>>
    /\ props.has_discount
    /\ props.discount_percentage = 312
    /\ props.is_in_stock

\* C21: for a product with price >= 0 and discount_price absent or >= 0,
\* reading discount_percentage never divides by zero, a zero price yields 0,
\* and the result lies between 0 and 100 percent inclusive.
C21_NoDivisionByZeroInRange ==
    (/\ props.read
     /\ item.price >= 0
     /\ item.discount_price = <<>> \/ item.discount_price[1] >= 0)
        => /\ ~props.raised
           /\ item.price = 0 => props.discount_percentage = 0
           /\ props.discount_percentage >= 0
           /\ props.discount_percentage <= 100 * 100

\* a product with a zero price and a discount price of zero was read: no
\* discount, no division, 0 percent
C21_Witness ==
    /\ props.read
    /\ item.price = 0
    /\ item.discount_price = <<0>>
    /\ ~props.has_discount
    /\ ~props.raised
    /\ props.discount_percentage = 0

(***************************************************************************)
(* Claims about failed and unrelated image saves                           *)
(***************************************************************************)

\* C18: a ProductImage save with is_primary = TRUE that fails has changed
\* the is_primary flag of no stored image (its demotion is not left
\* committed).
C18_AllOrNothing ==
    \A r \in Requests :
        (pc[r] = "failed" /\ req[r].is_primary) => ~req[r].demoted

\* the table with only the rows of product p and the row being saved
OwnRows(imgs, i, p) ==
    [j \in ImageIds |-> IF imgs[j].product = p \/ j = i THEN imgs[j] ELSE NoRow]

\* the save of row i into product p is refused by the rows imgs holds
Refused(imgs, i, p, prim) ==
    LET demoted == IF prim THEN DemoteOthers(imgs, p) ELSE imgs
    IN ~UniqueTogether(demoted) \/ ~UniqueTogether(WriteRow(demoted, i, p, prim))

\* C19: a save of an image of product p leaves every image of every other
\* product as it was, and it fails exactly when it would fail with the other
\* products holding no image at all.
C19_ProductsNeverContend ==
    [][\A i \in {0} \cup Stored(images), p \in Products, prim \in BOOLEAN :
          ProductImage_save(i, p, prim) =>
              /\ \A j \in Stored(images) \ {i} :
                     images[j].product # p => images'[j] = images[j]
              /\ imgLast'.status = "IntegrityError"
                     <=> Refused(OwnRows(images, i, p), i, p, prim)]_vars

\* a primary image was saved for product 1, which holds two images, while
\* product 2 holds a primary and a non-primary image
C19_Witness ==
    /\ imgLast.status = "ok"
    /\ imgLast.is_primary
    /\ imgLast.product = 1
    /\ Cardinality(ImagesOf(images, 1)) = 2
    /\ Cardinality(ImagesOf(images, 2)) = 2
    /\ Cardinality(PrimariesOf(images, 2)) = 1

====
